---- MODULE Spec2Model ----
(***************************************************************************)
(* Frame-driven simulated mouse of qmotion-templates:                      *)
(*   useMouseController  (hooks/useMouseController, src/unnamed/part_000)  *)
(*   useSimulatedHover   (hooks/useSimulatedHover,  src/unnamed/part_001)  *)
(*   HoverTrigger        (src/src/components/HoverTrigger.tsx)             *)
(*   ScreenSpace3D       (layouts/ScreenSpace3D,    src/unnamed/part_001)  *)
(* One render pass evaluates MouseProvider (useMouseController) and then   *)
(* the consumers of its context: the HoverTrigger of the tracked element   *)
(* (useSimulatedHover) and, when the tree has one, ScreenSpace3D.  Both    *)
(* hooks sit behind useMemo.                                               *)
(*                                                                         *)
(* Specifications:                                                         *)
(*   Spec          frames move forward, the element's geometry changes     *)
(*   SpecRelayout  the same, with the geometry of each pass kept           *)
(*   SpecReplay    fixed geometry, frames in any order, unvalidated config *)
(*   SpecCamera    a ScreenSpace3D with any props in the tree              *)
(*   SpecOwners    two render sessions with two tracked elements each      *)
(*   SpecTrajectory  as Spec, with waypoints at three distinct frames      *)
(*                                                                         *)
(* Numbers are JavaScript doubles in the source; here they are exact       *)
(* rationals <<n, d>> (d > 0, lowest terms).  Math.sin / Math.cos are      *)
(* tabulated to three decimals at the arguments the model uses, and        *)
(* Math.sqrt is kept symbolic (its two legs dx, dy are stored).            *)
(***************************************************************************)
EXTENDS Integers, Sequences, FiniteSets, TLC

VARIABLES
    config,         \* MouseControllerConfig handed to MouseProvider
    hitboxPadding,  \* second argument of useSimulatedHover (or UNDEF)
    frame,          \* useCurrentFrame()
    rect,           \* ref.current.getBoundingClientRect(), NULL when ref.current is null
    mouse,          \* useMemo cell of useMouseController: deps, value, geometry read
    hover,          \* useMemo cell of useSimulatedHover: deps, value, geometry read
    hoverRunEnded,  \* history: some evaluation has reported the end of a hover run
    snapshot,       \* history of a re-layout: what ref.current gave at the latest render pass
    probe,          \* history of a replay: the first evaluation, and what came after it
    sceneProps,     \* props handed to ScreenSpace3D (NULL: no ScreenSpace3D in the tree)
    scene,          \* what ScreenSpace3D rendered last (NULL before the first render)
    trigger         \* HoverTrigger around the tracked element: whether the active class
                    \* and style are applied, and how often onHover and onLeave were called
VARIABLES
    layout,         \* several tracked elements: what each element's ref.current gives
    sessions        \* several render sessions: per session its frame, the useMemo cell of
                    \* its MouseProvider and the useMemo cell of each element's hover hook

vars == <<config, hitboxPadding, frame, rect, mouse, hover, hoverRunEnded, snapshot, probe,
          sceneProps, scene, trigger, layout, sessions>>

\* An optional value is a tuple: empty when absent (null, undefined), <<v>> when present.
NULL == <<>>
UNDEF == <<>>
Some(v) == <<v>>
Infinity == <<"Infinity">>

----------------------------------------------------------------------------
(* Bounds of the model *)

MaxFrame == 9
MaxWaypoints == 3
MaxStep == 2
MaxReplayWaypoints == 2

(* Program constants *)

DefaultClickDuration == 8
DefaultWobbleAmplitude == 2
DefaultHitboxPadding == 0
FallbackX == 960
FallbackY == 540
DefaultViewportWidth == 1920
DefaultViewportHeight == 1080

----------------------------------------------------------------------------
(* Exact rational arithmetic standing for the doubles of the source *)

Abs(n) == IF n < 0 THEN -n ELSE n

RECURSIVE GCD(_, _)
GCD(a, b) == IF b = 0 THEN a ELSE GCD(b, a % b)

Norm(n, d) ==
    LET g == GCD(Abs(n), Abs(d))
        s == IF d < 0 THEN -1 ELSE 1
    IN  <<(s * n) \div g, (s * d) \div g>>

R(n) == <<n, 1>>
RAdd(p, q) == Norm(p[1] * q[2] + q[1] * p[2], p[2] * q[2])
RSub(p, q) == Norm(p[1] * q[2] - q[1] * p[2], p[2] * q[2])
RMul(p, q) == Norm(p[1] * q[1], p[2] * q[2])
RDiv(p, q) == Norm(p[1] * q[2], p[2] * q[1])
RLt(p, q) == p[1] * q[2] < q[1] * p[2]
RLe(p, q) == p[1] * q[2] <= q[1] * p[2]

(* Math.sin(f * 0.1) and Math.cos(f * 0.1 * 0.8), f = 0 .. 15, in thousandths *)
SinTable == <<0, 100, 199, 296, 389, 479, 565, 644, 717, 783, 841, 891, 932, 964, 985, 997>>
CosTable == <<1000, 997, 987, 971, 949, 921, 887, 847, 802, 752, 697, 637, 574, 506, 436, 362>>

----------------------------------------------------------------------------
(* Inputs: waypoints, configuration, geometry *)

\* target: { x, y } or a RefObject (the ref of the tracked element)
Point(x, y) == [kind |-> "point", x |-> x, y |-> y]
ElementRef == [kind |-> "ref"]

\* The waypoint shapes the model draws from (target, offset?, onClick?, easing?).
WaypointShapes ==
    { [target |-> Point(0, 0),   offset |-> UNDEF,                     onClick |-> UNDEF,       easing |-> UNDEF],
      [target |-> Point(96, 45), offset |-> Some([x |-> 4, y |-> 0]),  onClick |-> Some(FALSE), easing |-> Some("hold")],
      [target |-> ElementRef,    offset |-> Some([x |-> 11, y |-> 0]), onClick |-> Some(TRUE),  easing |-> UNDEF] }

WaypointFrames == {1, 5}

Waypoint(f, s) ==
    [frame |-> f, target |-> s.target, offset |-> s.offset, onClick |-> s.onClick, easing |-> s.easing]

Waypoints == {Waypoint(f, s) : f \in WaypointFrames, s \in WaypointShapes}

FrameAscending(wps) == \A i \in 1..(Len(wps) - 1) : wps[i].frame <= wps[i + 1].frame

WaypointLists ==
    UNION { {wps \in [1..n -> Waypoints] : FrameAscending(wps)} : n \in 0..MaxWaypoints }

\* The optional settings: all left to their defaults, or all given
\* (wobble and clickDuration of the config, hitboxPadding of the hover hook).
Options ==
    { [wobble |-> UNDEF, clickDuration |-> UNDEF, hitboxPadding |-> UNDEF],
      [wobble |-> Some([amplitude |-> 0, speed |-> <<1, 10>>]), clickDuration |-> Some(2),
       hitboxPadding |-> Some(2)] }

Config(w, o) == [waypoints |-> w, wobble |-> o.wobble, clickDuration |-> o.clickDuration]

\* DOMRect of the tracked element: left, top, width, height.
Rects == { [left |-> 90, top |-> 40, width |-> 20, height |-> 10] }

\* What ref.current gives: NULL (not mounted) or an element with its DOMRect.
Geometries == {Some(r) : r \in Rects} \cup {NULL}

RectRight(r) == r.left + r.width
RectBottom(r) == r.top + r.height

----------------------------------------------------------------------------
(* useMouseController: the callback handed to useMemo *)

\* const { waypoints, wobble = { amplitude: 2, speed: 0.1 }, clickDuration = 8 } = config
Wobble(cfg) ==
    IF cfg.wobble = UNDEF
    THEN [amplitude |-> DefaultWobbleAmplitude, speed |-> <<1, 10>>]
    ELSE cfg.wobble[1]

ClickDuration(cfg) ==
    IF cfg.clickDuration = UNDEF THEN DefaultClickDuration ELSE cfg.clickDuration[1]

\* Mutant: the loop without its "past all waypoints, stay at last" branch.
RECURSIVE FindSegmentLoop_NoPastLast(_, _, _, _, _)
FindSegmentLoop_NoPastLast(f, wps, i, startWp, endWp) ==
    IF i > Len(wps) - 1
    THEN <<startWp, endWp>>
    ELSE IF f >= wps[i].frame /\ f <= wps[i + 1].frame
         THEN <<i, i + 1>>
         ELSE FindSegmentLoop_NoPastLast(f, wps, i + 1, startWp, endWp)

\* The for loop that finds the current segment; the result is <<start, end>> as
\* 1-based indices into waypoints (startWp, endWp).
RECURSIVE FindSegmentLoop(_, _, _, _, _)
FindSegmentLoop(f, wps, i, startWp, endWp) ==
    IF i > Len(wps) - 1
    THEN <<startWp, endWp>>
    ELSE IF f >= wps[i].frame /\ f <= wps[i + 1].frame
         THEN <<i, i + 1>>
         ELSE IF f > wps[i + 1].frame /\ i = Len(wps) - 1
              THEN FindSegmentLoop(f, wps, i + 1, i + 1, i + 1)
              ELSE FindSegmentLoop(f, wps, i + 1, startWp, endWp)

FindSegment(f, wps) == FindSegmentLoop(f, wps, 1, 1, 1)

\* wp.offset?.x || 0
OffsetX(wp) == IF wp.offset = UNDEF THEN 0 ELSE wp.offset[1].x
OffsetY(wp) == IF wp.offset = UNDEF THEN 0 ELSE wp.offset[1].y

\* Mutant: the centre taken as rect.left + rect.width, rect.top + rect.height.
resolveTarget_NoHalf(wp, g) ==
    IF wp.target.kind = "ref"
    THEN IF g # NULL
         THEN LET r == g[1]
              IN  [x |-> R(r.left + r.width + OffsetX(wp)),
                   y |-> R(r.top + r.height + OffsetY(wp))]
         ELSE [x |-> R(FallbackX), y |-> R(FallbackY)]
    ELSE [x |-> R(wp.target.x + OffsetX(wp)),
          y |-> R(wp.target.y + OffsetY(wp))]

\* resolveTarget(wp), reading the element's geometry g (NULL: ref.current is null)
resolveTarget(wp, g) ==
    IF wp.target.kind = "ref"
    THEN IF g # NULL
         THEN LET r == g[1]
              IN  [x |-> RAdd(RAdd(R(r.left), RDiv(R(r.width), R(2))), R(OffsetX(wp))),
                   y |-> RAdd(RAdd(R(r.top), RDiv(R(r.height), R(2))), R(OffsetY(wp)))]
         ELSE [x |-> R(FallbackX), y |-> R(FallbackY)]
    ELSE [x |-> R(wp.target.x + OffsetX(wp)),
          y |-> R(wp.target.y + OffsetY(wp))]

\* Easing.easeInOutQuad of @qmotion/core
easeInOutQuad(t) ==
    IF RLt(t, <<1, 2>>)
    THEN RMul(R(2), RMul(t, t))
    ELSE LET u == RAdd(RMul(R(-2), t), R(2))
         IN  RSub(R(1), RDiv(RMul(u, u), R(2)))

\* A custom easing a waypoint may carry: t => (t < 1 ? 0 : 1)
holdEasing(t) == IF RLt(t, R(1)) THEN R(0) ELSE R(1)

\* endWp.easing || Easing.easeInOutQuad
ApplyEasing(wp, t) == IF wp.easing = UNDEF THEN easeInOutQuad(t) ELSE holdEasing(t)

\* interpolate(frame, [a, b], [0, 1], {easing, extrapolateLeft: 'clamp', extrapolateRight: 'clamp'})
interpolate(f, a, b, wp) ==
    LET clamped == IF f < a THEN a ELSE IF f > b THEN b ELSE f
    IN  ApplyEasing(wp, RDiv(R(clamped - a), R(b - a)))

\* Mutant: the progress measured from frame 0 instead of the start waypoint's frame.
Progress_FromZero(f, startWp, endWp) ==
    IF startWp.frame = endWp.frame
    THEN R(1)
    ELSE interpolate(f, 0, endWp.frame, endWp)

\* const t = startWp.frame === endWp.frame ? 1 : interpolate(...)
Progress(f, startWp, endWp) ==
    IF startWp.frame = endWp.frame
    THEN R(1)
    ELSE interpolate(f, startWp.frame, endWp.frame, endWp)

\* Mutant: startPos + endPos * t, the start not taken off the end.
Interpolated_NoDelta(f, wps, g) ==
    LET seg == FindSegment(f, wps)
        startWp == wps[seg[1]]
        endWp == wps[seg[2]]
        startPos == resolveTarget(startWp, g)
        endPos == resolveTarget(endWp, g)
        t == Progress(f, startWp, endWp)
    IN  [x |-> RAdd(startPos.x, RMul(endPos.x, t)),
         y |-> RAdd(startPos.y, RMul(endPos.y, t))]

\* startPos + (endPos - startPos) * t, for both coordinates
Interpolated(f, wps, g) ==
    LET seg == FindSegment(f, wps)
        startWp == wps[seg[1]]
        endWp == wps[seg[2]]
        startPos == resolveTarget(startWp, g)
        endPos == resolveTarget(endWp, g)
        t == Progress(f, startWp, endWp)
    IN  [x |-> RAdd(startPos.x, RMul(RSub(endPos.x, startPos.x), t)),
         y |-> RAdd(startPos.y, RMul(RSub(endPos.y, startPos.y), t))]

\* Math.sin(frame * wobble.speed) * wobble.amplitude (speed 0.1 is the tabulated one)
wobbleX(f, w) == RMul(<<SinTable[f + 1], 1000>>, R(w.amplitude))
\* Math.cos(frame * wobble.speed * 0.8) * wobble.amplitude
wobbleY(f, w) == RMul(<<CosTable[f + 1], 1000>>, R(w.amplitude))

\* Mutant: the window closed at its right end (frame <= wp.frame + clickDuration).
IsClicking_Inclusive(f, wps, clickDuration) ==
    \E i \in 1..Len(wps) :
        /\ wps[i].onClick = Some(TRUE)
        /\ f >= wps[i].frame
        /\ f <= wps[i].frame + clickDuration

\* the loop over waypoints that sets isClicking
IsClicking(f, wps, clickDuration) ==
    \E i \in 1..Len(wps) :
        /\ wps[i].onClick = Some(TRUE)
        /\ f >= wps[i].frame
        /\ f < wps[i].frame + clickDuration

\* Mutant: the empty list answered with the fallback point of resolveTarget.
MouseCompute_EmptyAtFallback(f, cfg, g) ==
    IF Len(cfg.waypoints) = 0
    THEN [x |-> R(FallbackX), y |-> R(FallbackY), isClicking |-> FALSE]
    ELSE LET p == Interpolated(f, cfg.waypoints, g)
         IN  [x |-> RAdd(p.x, wobbleX(f, Wobble(cfg))),
              y |-> RAdd(p.y, wobbleY(f, Wobble(cfg))),
              isClicking |-> IsClicking(f, cfg.waypoints, ClickDuration(cfg))]

\* Mutant: the interpolated position published without the wobble.
MouseCompute_NoJitter(f, cfg, g) ==
    IF Len(cfg.waypoints) = 0
    THEN [x |-> R(0), y |-> R(0), isClicking |-> FALSE]
    ELSE LET p == Interpolated(f, cfg.waypoints, g)
         IN  [x |-> p.x, y |-> p.y,
              isClicking |-> IsClicking(f, cfg.waypoints, ClickDuration(cfg))]

\* The whole callback: the MousePosition for frame f, configuration cfg, geometry g
MouseCompute(f, cfg, g) ==
    IF Len(cfg.waypoints) = 0
    THEN [x |-> R(0), y |-> R(0), isClicking |-> FALSE]
    ELSE LET p == Interpolated(f, cfg.waypoints, g)
         IN  [x |-> RAdd(p.x, wobbleX(f, Wobble(cfg))),
              y |-> RAdd(p.y, wobbleY(f, Wobble(cfg))),
              isClicking |-> IsClicking(f, cfg.waypoints, ClickDuration(cfg))]

\* Mutant: the cache keyed on every second frame (Math.floor(frame / 2)).
MouseDeps_CoarseFrame(f, cfg) ==
    <<f \div 2, cfg.waypoints, Wobble(cfg).amplitude, Wobble(cfg).speed, ClickDuration(cfg)>>

\* the dependency array [frame, waypoints, wobble.amplitude, wobble.speed, clickDuration]
MouseDeps(f, cfg) ==
    <<f, cfg.waypoints, Wobble(cfg).amplitude, Wobble(cfg).speed, ClickDuration(cfg)>>

----------------------------------------------------------------------------
(* useSimulatedHover: the callback handed to useMemo *)

\* hitboxPadding: number = 0
Padding(p) == IF p = UNDEF THEN DefaultHitboxPadding ELSE p[1]

\* Math.sqrt(dx * dx + dy * dy), kept symbolic as the pair (dx, dy)
Distance(m, r) ==
    LET dx == RSub(m.x, RAdd(R(r.left), RDiv(R(r.width), R(2))))
        dy == RSub(m.y, RAdd(R(r.top), RDiv(R(r.height), R(2))))
    IN  <<"sqrt", dx, dy>>

\* Mutant: the padding taken off the right and bottom edges instead of added.
IsHovered_PaddingSign(m, r, pad) ==
    /\ RLe(R(r.left - pad), m.x)
    /\ RLe(m.x, R(RectRight(r) - pad))
    /\ RLe(R(r.top - pad), m.y)
    /\ RLe(m.y, R(RectBottom(r) - pad))

\* mouse within the padded bounding box
IsHovered(m, r, pad) ==
    /\ RLe(R(r.left - pad), m.x)
    /\ RLe(m.x, R(RectRight(r) + pad))
    /\ RLe(R(r.top - pad), m.y)
    /\ RLe(m.y, R(RectBottom(r) + pad))

\* Mutant: the frame reported whether hovered or not.
HoverStartFrame_NeverNull(f, isHovered) == Some(f)

\* Mutant: the frame after the current one reported.
HoverStartFrame_FrameAhead(f, isHovered) == IF isHovered THEN Some(f + 1) ELSE NULL

\* const hoverStartFrame = isHovered ? frame : null
HoverStartFrame(f, isHovered) == IF isHovered THEN Some(f) ELSE NULL

\* Mutant: an unmeasured element answered with distance 0.
HoverCompute_ZeroDistance(f, m, g, pad) ==
    IF g = NULL
    THEN [isHovered |-> FALSE, distance |-> <<"sqrt", R(0), R(0)>>, hoverStartFrame |-> NULL]
    ELSE LET h == IsHovered(m, g[1], pad)
         IN  [isHovered |-> h,
              distance |-> Distance(m, g[1]),
              hoverStartFrame |-> HoverStartFrame(f, h)]

\* The whole callback: the SimulatedHoverResult for frame f, mouse m, geometry g
HoverCompute(f, m, g, pad) ==
    IF g = NULL
    THEN [isHovered |-> FALSE, distance |-> Infinity, hoverStartFrame |-> NULL]
    ELSE LET h == IsHovered(m, g[1], pad)
         IN  [isHovered |-> h,
              distance |-> Distance(m, g[1]),
              hoverStartFrame |-> HoverStartFrame(f, h)]

\* the dependency array [frame, mousePos.x, mousePos.y, ref, hitboxPadding]
HoverDeps(f, m, pad) == <<f, m.x, m.y, "ref", pad>>

----------------------------------------------------------------------------
(* HoverTrigger (src/src/components/HoverTrigger.tsx) *)

\* The component's render: activeClassName and activeStyle are applied when
\* isHovered; onHover and onLeave are destructured from the props and not
\* used again (the TODO in the source), so their call counts stay as they are.
HoverTrigger(t, h) == [t EXCEPT !.active = h.isHovered]

----------------------------------------------------------------------------
(* ScreenSpace3D: the parallax transform of the scene (src/unnamed/part_001) *)

\* The props the model draws from; fov, className and style only reach the
\* container's style and are left out.
ParallaxStrengths == {UNDEF, Some(<<-1, 10>>)}
RotateStrengths == {UNDEF, Some(R(2))}
Follows == {UNDEF, Some(FALSE)}
Targets == {UNDEF, Some([x |-> 960, y |-> 540]), Some([x |-> 1920, y |-> 540]),
            Some([x |-> 400, y |-> 300])}
Viewports == {UNDEF, Some([width |-> 800, height |-> 600])}

SceneProps ==
    [parallaxStrength : ParallaxStrengths, rotateStrength : RotateStrengths,
     follow : Follows, target : Targets, viewport : Viewports]

\* parallaxStrength = 0.05, rotateStrength = 0, follow = true,
\* viewport = { width: 1920, height: 1080 }
ParallaxStrength(p) == IF p.parallaxStrength = UNDEF THEN <<1, 20>> ELSE p.parallaxStrength[1]
RotateStrength(p) == IF p.rotateStrength = UNDEF THEN R(0) ELSE p.rotateStrength[1]
Follow(p) == IF p.follow = UNDEF THEN TRUE ELSE p.follow[1]
Viewport(p) ==
    IF p.viewport = UNDEF
    THEN [width |-> DefaultViewportWidth, height |-> DefaultViewportHeight]
    ELSE p.viewport[1]

\* Mutant: the mouse followed even when a target is given.
ActiveTarget_MouseFirst(p, mousePos) ==
    IF Follow(p)
    THEN [x |-> mousePos.x, y |-> mousePos.y]
    ELSE IF p.target # UNDEF
         THEN [x |-> R(p.target[1].x), y |-> R(p.target[1].y)]
         ELSE [x |-> RDiv(R(Viewport(p).width), R(2)), y |-> RDiv(R(Viewport(p).height), R(2))]

\* target || (follow ? mousePos : { x: viewport.width / 2, y: viewport.height / 2 })
ActiveTarget(p, mousePos) ==
    IF p.target # UNDEF
    THEN [x |-> R(p.target[1].x), y |-> R(p.target[1].y)]
    ELSE IF Follow(p)
         THEN [x |-> mousePos.x, y |-> mousePos.y]
         ELSE [x |-> RDiv(R(Viewport(p).width), R(2)), y |-> RDiv(R(Viewport(p).height), R(2))]

\* Mutant: the position scaled to 0 .. 1 and shifted without doubling it first.
Normalized_NoDoubling(v, size) == RSub(RDiv(v, R(size)), R(1))

\* (activeTarget.x / viewport.width) * 2 - 1
Normalized(v, size) == RSub(RMul(RDiv(v, R(size)), R(2)), R(1))

\* Mutant: the scene moved with the target instead of against it.
Translation_WithTarget(n, size, strength) == RMul(RMul(n, R(size)), strength)

\* -normalizedX * viewport.width * parallaxStrength
Translation(n, size, strength) == RMul(RMul(RMul(R(-1), n), R(size)), strength)

\* Mutant: the transform computed whether follow is set or not.
ScreenSpace3D_AlwaysFollow(p, mousePos) ==
    LET activeTarget == ActiveTarget(p, mousePos)
        normalizedX == Normalized(activeTarget.x, Viewport(p).width)
        normalizedY == Normalized(activeTarget.y, Viewport(p).height)
    IN  [activeTarget |-> activeTarget,
         offsetX |-> Translation(normalizedX, Viewport(p).width, ParallaxStrength(p)),
         offsetY |-> Translation(normalizedY, Viewport(p).height, ParallaxStrength(p)),
         rotateX |-> RMul(RMul(R(-1), normalizedY), RotateStrength(p)),
         rotateY |-> RMul(normalizedX, RotateStrength(p))]

\* The component's render: the active target and the four numbers of the
\* scene's transform (translate3d(offsetX, offsetY, 0) rotateX rotateY).
ScreenSpace3D(p, mousePos) ==
    LET activeTarget == ActiveTarget(p, mousePos)
    IN  IF Follow(p)
        THEN LET normalizedX == Normalized(activeTarget.x, Viewport(p).width)
                 normalizedY == Normalized(activeTarget.y, Viewport(p).height)
             IN  [activeTarget |-> activeTarget,
                  offsetX |-> Translation(normalizedX, Viewport(p).width, ParallaxStrength(p)),
                  offsetY |-> Translation(normalizedY, Viewport(p).height, ParallaxStrength(p)),
                  rotateX |-> RMul(RMul(R(-1), normalizedY), RotateStrength(p)),
                  rotateY |-> RMul(normalizedX, RotateStrength(p))]
        ELSE [activeTarget |-> activeTarget,
              offsetX |-> R(0), offsetY |-> R(0), rotateX |-> R(0), rotateY |-> R(0)]

----------------------------------------------------------------------------
(* React's useMemo: run the callback when the dependencies differ *)

\* before the first render the hook has no memoized value
NoDeps == <<>>

useMemo(cell, deps, fresh, g) ==
    IF cell.deps = deps
    THEN cell
    ELSE [deps |-> deps, value |-> fresh, read |-> g]

----------------------------------------------------------------------------
(* The state machine *)

Init ==
    /\ \E w \in WaypointLists, o \in Options :
          /\ config = Config(w, o)
          /\ hitboxPadding = o.hitboxPadding
    /\ frame = 0
    /\ rect = NULL
    /\ mouse = [deps |-> NoDeps, value |-> [x |-> R(0), y |-> R(0), isClicking |-> FALSE], read |-> NULL]
    /\ hover = [deps |-> NoDeps,
                value |-> [isHovered |-> FALSE, distance |-> Infinity, hoverStartFrame |-> NULL],
                read |-> NULL]
    /\ hoverRunEnded = FALSE
    /\ snapshot = NULL
    /\ probe = NULL
    /\ sceneProps = NULL
    /\ scene = NULL
    /\ trigger = [active |-> FALSE, onHover |-> 0, onLeave |-> 0]
    /\ layout = <<>>
    /\ sessions = <<>>

\* One render pass at frame f: MouseProvider evaluates useMouseController and
\* publishes its value; the HoverTrigger of the tracked element (through
\* useSimulatedHover) and the ScreenSpace3D around the scene read it.
Render(f) ==
    /\ frame' = f
    /\ mouse' = useMemo(mouse, MouseDeps(f, config), MouseCompute(f, config, rect), rect)
    /\ LET m == mouse'.value
           pad == Padding(hitboxPadding)
       IN  hover' = useMemo(hover, HoverDeps(f, m, pad), HoverCompute(f, m, rect, pad), rect)
    /\ hoverRunEnded' = (hoverRunEnded \/ (hover.value.isHovered /\ ~hover'.value.isHovered))
    /\ scene' = IF sceneProps = NULL THEN NULL ELSE Some(ScreenSpace3D(sceneProps[1], mouse'.value))
    /\ trigger' = HoverTrigger(trigger, hover'.value)
    /\ UNCHANGED <<config, hitboxPadding, rect, sceneProps, layout, sessions>>

\* The frame clock: the next evaluation is at the same or a later frame.
Tick ==
    /\ \E f \in frame..(IF frame + MaxStep > MaxFrame THEN MaxFrame ELSE frame + MaxStep) : Render(f)
    /\ UNCHANGED <<probe, snapshot>>

\* The host lays the element out, moves it, mounts or unmounts it.
SetGeometry ==
    /\ \E g \in Geometries \ {rect} : rect' = g
    /\ UNCHANGED <<config, hitboxPadding, frame, mouse, hover, hoverRunEnded, snapshot, probe,
                   sceneProps, scene, trigger, layout, sessions>>

Next == Tick \/ SetGeometry

Spec == Init /\ [][Next]_vars

----------------------------------------------------------------------------
(* Re-layout: the same tree, with the geometry every render pass found     *)
(* kept as history, so that a pass at an unchanged frame after a geometry  *)
(* change can be told from no pass at all.                                 *)

Pass ==
    /\ \E f \in frame..(IF frame + MaxStep > MaxFrame THEN MaxFrame ELSE frame + MaxStep) : Render(f)
    /\ snapshot' = rect
    /\ UNCHANGED probe

NextRelayout == Pass \/ SetGeometry

SpecRelayout == Init /\ [][NextRelayout]_vars

----------------------------------------------------------------------------
(* Replay: one configuration and one geometry snapshot, frames evaluated in *)
(* any order (a host that seeks, or renders frame ranges out of order).     *)
(* MouseControllerConfig is a plain interface and the hook only fills in    *)
(* defaults, so any number can arrive as clickDuration.                     *)

ReplayOptions ==
    Options \cup { [wobble |-> UNDEF, clickDuration |-> Some(-1), hitboxPadding |-> UNDEF] }

ReplayWaypointLists == {w \in WaypointLists : Len(w) <= MaxReplayWaypoints}

\* those of them whose waypoints are at distinct frames
DistinctFrameLists ==
    {w \in ReplayWaypointLists : \A i \in 1..(Len(w) - 1) : w[i].frame < w[i + 1].frame}

InitReplay ==
    /\ \E w \in ReplayWaypointLists, o \in ReplayOptions :
          /\ config = Config(w, o)
          /\ hitboxPadding = o.hitboxPadding
    /\ frame = 0
    /\ rect \in Geometries
    /\ mouse = [deps |-> NoDeps, value |-> [x |-> R(0), y |-> R(0), isClicking |-> FALSE], read |-> NULL]
    /\ hover = [deps |-> NoDeps,
                value |-> [isHovered |-> FALSE, distance |-> Infinity, hoverStartFrame |-> NULL],
                read |-> NULL]
    /\ hoverRunEnded = FALSE
    /\ snapshot = NULL
    /\ probe = NULL
    /\ sceneProps = NULL
    /\ scene = NULL
    /\ trigger = [active |-> FALSE, onHover |-> 0, onLeave |-> 0]
    /\ layout = <<>>
    /\ sessions = <<>>

\* the frames within MaxStep of the current one, before or after it
SeekFrames ==
    (IF frame - MaxStep < 0 THEN 0 ELSE frame - MaxStep)
        ..(IF frame + MaxStep > MaxFrame THEN MaxFrame ELSE frame + MaxStep)

\* A render pass at an earlier, the same or a later frame.  The first pass is
\* remembered, and afterwards whether a lower and whether a higher frame has
\* been evaluated since.
Seek ==
    \E f \in SeekFrames :
        /\ Render(f)
        /\ probe' = IF probe = NULL
                    THEN Some([frame |-> f, value |-> mouse'.value, lower |-> FALSE, higher |-> FALSE])
                    ELSE Some([probe[1] EXCEPT !.lower = @ \/ f < probe[1].frame,
                                               !.higher = @ \/ f > probe[1].frame])
        /\ UNCHANGED snapshot

NextReplay == Seek

SpecReplay == InitReplay /\ [][NextReplay]_vars

----------------------------------------------------------------------------
(* Camera: a ScreenSpace3D with any props, around a mouse that follows      *)
(* waypoints at distinct frames; the geometry of the tracked element is     *)
(* fixed.                                                                   *)

InitCamera ==
    /\ \E w \in DistinctFrameLists :
          /\ config = Config(w, [wobble |-> UNDEF, clickDuration |-> UNDEF])
          /\ hitboxPadding = UNDEF
    /\ frame = 0
    /\ rect \in Geometries
    /\ mouse = [deps |-> NoDeps, value |-> [x |-> R(0), y |-> R(0), isClicking |-> FALSE], read |-> NULL]
    /\ hover = [deps |-> NoDeps,
                value |-> [isHovered |-> FALSE, distance |-> Infinity, hoverStartFrame |-> NULL],
                read |-> NULL]
    /\ hoverRunEnded = FALSE
    /\ snapshot = NULL
    /\ probe = NULL
    /\ sceneProps \in {Some(p) : p \in SceneProps}
    /\ scene = NULL
    /\ trigger = [active |-> FALSE, onHover |-> 0, onLeave |-> 0]
    /\ layout = <<>>
    /\ sessions = <<>>

NextCamera == Tick

SpecCamera == InitCamera /\ [][NextCamera]_vars

----------------------------------------------------------------------------
(* Owners: the same composition rendered by two sessions at once (parallel  *)
(* rendering of frame ranges), each with two tracked elements.  Every       *)
(* rendered tree has its own component instances, and React keeps the       *)
(* useMemo cell of a hook with the component instance that called it.       *)

RenderSessions == {"first", "second"}
Elements == {"button", "panel"}

\* the element the ref of an element waypoint points at
TrackedElement == "button"

\* the button as in Geometries; the panel laid out around the fallback point
Layouts ==
    { [e \in Elements |->
          IF e = TrackedElement
          THEN g
          ELSE Some([left |-> 950, top |-> 530, width |-> 40, height |-> 20])] :
      g \in Geometries }

NewSession ==
    [frame |-> 0,
     mouse |-> [deps |-> NoDeps, value |-> [x |-> R(0), y |-> R(0), isClicking |-> FALSE],
                read |-> NULL],
     hover |-> [e \in Elements |->
                  [deps |-> NoDeps,
                   value |-> [isHovered |-> FALSE, distance |-> Infinity, hoverStartFrame |-> NULL],
                   read |-> NULL]]]

\* the dependency array of the hover hook of element e: ref is e's own ref
ElementDeps(f, m, pad, e) == [HoverDeps(f, m, pad) EXCEPT ![4] = e]

\* One render pass of one session at frame f, from its own cells in s.
RenderSessionAt(s, f, lay) ==
    LET m == useMemo(s.mouse, MouseDeps(f, config),
                     MouseCompute(f, config, lay[TrackedElement]), lay[TrackedElement])
        pad == Padding(hitboxPadding)
    IN  [frame |-> f,
         mouse |-> m,
         hover |-> [e \in Elements |->
                      useMemo(s.hover[e], ElementDeps(f, m.value, pad, e),
                              HoverCompute(f, m.value, lay[e], pad), lay[e])]]

\* Mutant: one set of cells for all sessions (module-level state).
Committed_Shared(all, id, s) == [t \in DOMAIN all |-> s]

\* the cells of a pass are kept with the tree that rendered
Committed(all, id, s) == [all EXCEPT ![id] = s]

InitOwners ==
    /\ \E w \in DistinctFrameLists, o \in Options :
          /\ config = Config(w, o)
          /\ hitboxPadding = o.hitboxPadding
    /\ frame = 0
    /\ rect = NULL
    /\ mouse = [deps |-> NoDeps, value |-> [x |-> R(0), y |-> R(0), isClicking |-> FALSE], read |-> NULL]
    /\ hover = [deps |-> NoDeps,
                value |-> [isHovered |-> FALSE, distance |-> Infinity, hoverStartFrame |-> NULL],
                read |-> NULL]
    /\ hoverRunEnded = FALSE
    /\ snapshot = NULL
    /\ probe = NULL
    /\ sceneProps = NULL
    /\ scene = NULL
    /\ trigger = [active |-> FALSE, onHover |-> 0, onLeave |-> 0]
    /\ layout \in Layouts
    /\ sessions = [id \in RenderSessions |-> NewSession]

\* One session renders its next frame; the sessions take turns in any order.
RenderSession ==
    /\ \E id \in RenderSessions :
          \E f \in sessions[id].frame
                      ..(IF sessions[id].frame + MaxStep > MaxFrame
                         THEN MaxFrame ELSE sessions[id].frame + MaxStep) :
              sessions' = Committed(sessions, id, RenderSessionAt(sessions[id], f, layout))
    /\ UNCHANGED <<config, hitboxPadding, frame, rect, mouse, hover, hoverRunEnded, snapshot,
                   probe, sceneProps, scene, trigger, layout>>

NextOwners == RenderSession

SpecOwners == InitOwners /\ [][NextOwners]_vars

----------------------------------------------------------------------------
(* Trajectory: waypoints at three distinct frames, so that a list has a     *)
(* first, an interior and a last waypoint; frames move forward and the      *)
(* element's geometry changes as in Spec.                                   *)

TrajectoryFrames == {1, 3, 5}

TrajectoryWaypoints == {Waypoint(f, s) : f \in TrajectoryFrames, s \in WaypointShapes}

TrajectoryLists ==
    UNION { {w \in [1..n -> TrajectoryWaypoints] :
                \A i \in 1..(n - 1) : w[i].frame < w[i + 1].frame} : n \in 0..MaxWaypoints }

InitTrajectory ==
    /\ \E w \in TrajectoryLists, o \in Options :
          /\ config = Config(w, o)
          /\ hitboxPadding = o.hitboxPadding
    /\ frame = 0
    /\ rect = NULL
    /\ mouse = [deps |-> NoDeps, value |-> [x |-> R(0), y |-> R(0), isClicking |-> FALSE], read |-> NULL]
    /\ hover = [deps |-> NoDeps,
                value |-> [isHovered |-> FALSE, distance |-> Infinity, hoverStartFrame |-> NULL],
                read |-> NULL]
    /\ hoverRunEnded = FALSE
    /\ snapshot = NULL
    /\ probe = NULL
    /\ sceneProps = NULL
    /\ scene = NULL
    /\ trigger = [active |-> FALSE, onHover |-> 0, onLeave |-> 0]
    /\ layout = <<>>
    /\ sessions = <<>>

NextTrajectory == Tick \/ SetGeometry

SpecTrajectory == InitTrajectory /\ [][NextTrajectory]_vars

----------------------------------------------------------------------------
(* What an evaluation was given and what it published *)

\* the hooks have run at least once
Evaluated == mouse.deps # NoDeps

\* the frame at which the published MousePosition was computed
EvalFrame == mouse.deps[1]

\* the published position with that frame's jitter taken off again
Unjittered ==
    [x |-> RSub(mouse.value.x, wobbleX(EvalFrame, Wobble(config))),
     y |-> RSub(mouse.value.y, wobbleY(EvalFrame, Wobble(config)))]

\* the mouse position the hover callback was given (mousePos.x, mousePos.y of its deps)
HoverMouse == [x |-> hover.deps[2], y |-> hover.deps[3]]

Wps == config.waypoints

----------------------------------------------------------------------------
(* C1: while isHovered stays true from one evaluation to the next, the     *)
(* reported hoverStartFrame stays the frame at which the hover run began.  *)
(* The code reports the current frame instead, so this is violated.        *)
C1_HoverStartRetained ==
    [][(hover.value.isHovered /\ hover'.value.isHovered)
          => hover'.value.hoverStartFrame = hover.value.hoverStartFrame]_vars

(* C2: when isHovered turns from false to true the reported hoverStartFrame *)
(* is the current frame; whenever isHovered is false it is null; and a      *)
(* hover result computed after an earlier one carries a frame later than    *)
(* every earlier evaluation, so never the frame of an earlier hover run.    *)
C2_HoverTransitions ==
    [][/\ (~hover.value.isHovered /\ hover'.value.isHovered)
            => hover'.value.hoverStartFrame = Some(frame')
       /\ ~hover'.value.isHovered => hover'.value.hoverStartFrame = NULL
       /\ (hover'.value.isHovered /\ hover' # hover /\ hover.deps # NoDeps)
            => hover'.value.hoverStartFrame[1] > hover.deps[1]]_vars

\* the mouse left the element, and is back on it at a later frame
C2_Witness ==
    /\ hoverRunEnded
    /\ hover.value.isHovered
    /\ hover.value.hoverStartFrame = Some(frame)

(* C3: an evaluation that measured the element reports isHovered exactly   *)
(* when the mouse lies in the rect widened by hitboxPadding on all four    *)
(* sides, bounds included.                                                 *)
InPaddedRect(m, r, pad) ==
    /\ RLe(R(r.left - pad), m.x) /\ RLe(m.x, R(r.left + r.width + pad))
    /\ RLe(R(r.top - pad), m.y) /\ RLe(m.y, R(r.top + r.height + pad))

C3_PaddedHitbox ==
    (hover.deps # NoDeps /\ hover.read # NULL)
        => (hover.value.isHovered
              <=> InPaddedRect(HoverMouse, hover.read[1], Padding(hitboxPadding)))

\* a point outside the rect by less than hitboxPadding is hovered
C3_Witness ==
    /\ hover.deps # NoDeps /\ hover.read # NULL
    /\ Padding(hitboxPadding) > 0
    /\ ~InPaddedRect(HoverMouse, hover.read[1], 0)
    /\ hover.value.isHovered

(* C4: an evaluation that found ref.current null reports isHovered false,  *)
(* distance +Infinity and hoverStartFrame null, at every frame and for     *)
(* every mouse position.                                                   *)
C4_Unmeasured ==
    (hover.deps # NoDeps /\ hover.read = NULL)
        => hover.value = [isHovered |-> FALSE, distance |-> Infinity, hoverStartFrame |-> NULL]

C4_Witness ==
    /\ hover.deps # NoDeps /\ hover.read = NULL
    /\ frame > 0
    /\ HoverMouse.x # R(0)
    /\ hover.value.distance = Infinity

(* C5: when two consecutive waypoints share frame F, the position at F     *)
(* (jitter excluded) is the resolved target of the second of the two,      *)
(* wherever the pair sits in the list.  (Lists in which a third waypoint   *)
(* shares F are left out: there the claim names two targets.)  The code    *)
(* takes the first pair that brackets F, so this is violated when an       *)
(* earlier waypoint precedes the pair.                                     *)
C5_DuplicateFrameSecond ==
    Evaluated =>
        \A i \in 1..(Len(Wps) - 1) :
            (/\ Wps[i].frame = Wps[i + 1].frame
             /\ EvalFrame = Wps[i].frame
             /\ \A j \in 1..Len(Wps) : Wps[j].frame = EvalFrame => j \in {i, i + 1})
                => Unjittered = resolveTarget(Wps[i + 1], mouse.read)

(* C6 as claimed: with no waypoints the position is the viewport centre.   *)
C6_EmptyAtViewportCentre ==
    (Evaluated /\ Len(Wps) = 0)
        => mouse.value = [x |-> R(960), y |-> R(540), isClicking |-> FALSE]

(* C6 as amended: with no waypoints the position is (0, 0) and isClicking  *)
(* is false, at every frame.                                               *)
C6_EmptyAtOrigin ==
    (Evaluated /\ Len(Wps) = 0)
        => mouse.value = [x |-> R(0), y |-> R(0), isClicking |-> FALSE]

C6_Witness == Evaluated /\ Len(Wps) = 0 /\ frame = MaxFrame /\ rect # NULL

(* C7: for a frame-ascending list of n >= 1 waypoints, before the first    *)
(* waypoint's frame the position (jitter excluded) is the first waypoint's *)
(* resolved target, after the last waypoint's frame it is the last         *)
(* waypoint's resolved target, and with one waypoint it is that waypoint's *)
(* target at every frame.                                                  *)
C7_BoundaryHold ==
    (Evaluated /\ Len(Wps) >= 1 /\ FrameAscending(Wps)) =>
        /\ EvalFrame < Wps[1].frame => Unjittered = resolveTarget(Wps[1], mouse.read)
        /\ EvalFrame > Wps[Len(Wps)].frame
              => Unjittered = resolveTarget(Wps[Len(Wps)], mouse.read)
        /\ Len(Wps) = 1 => Unjittered = resolveTarget(Wps[1], mouse.read)

\* past the last of several waypoints, whose target is not the first one's
C7_Witness ==
    /\ Evaluated /\ Len(Wps) >= 2
    /\ EvalFrame > Wps[Len(Wps)].frame
    /\ resolveTarget(Wps[1], mouse.read) # resolveTarget(Wps[Len(Wps)], mouse.read)
    /\ Unjittered = resolveTarget(Wps[Len(Wps)], mouse.read)

(* C8: in the segment the controller interpolates over, when its two       *)
(* waypoints have distinct frames and the end waypoint has the default     *)
(* easing, the position (jitter excluded) is the start waypoint's target   *)
(* at the start frame, the end waypoint's target at the end frame, and at  *)
(* every frame strictly inside lies strictly between the two targets in    *)
(* each coordinate in which they differ.                                   *)
StrictlyBetween(v, a, b) == (RLt(a, v) /\ RLt(v, b)) \/ (RLt(b, v) /\ RLt(v, a))

C8_InterpolationBounds ==
    (Evaluated /\ Len(Wps) >= 1) =>
        LET seg == FindSegment(EvalFrame, Wps)
            startWp == Wps[seg[1]]
            endWp == Wps[seg[2]]
            a == resolveTarget(startWp, mouse.read)
            b == resolveTarget(endWp, mouse.read)
        IN  (startWp.frame # endWp.frame /\ endWp.easing = UNDEF) =>
                /\ EvalFrame = startWp.frame => Unjittered = a
                /\ EvalFrame = endWp.frame => Unjittered = b
                /\ (startWp.frame < EvalFrame /\ EvalFrame < endWp.frame) =>
                      /\ a.x # b.x => StrictlyBetween(Unjittered.x, a.x, b.x)
                      /\ a.y # b.y => StrictlyBetween(Unjittered.y, a.y, b.y)

\* strictly inside a segment whose targets differ in both coordinates
C8_Witness ==
    /\ Evaluated /\ Len(Wps) >= 2
    /\ LET seg == FindSegment(EvalFrame, Wps)
           startWp == Wps[seg[1]]
           endWp == Wps[seg[2]]
           a == resolveTarget(startWp, mouse.read)
           b == resolveTarget(endWp, mouse.read)
       IN  /\ startWp.frame < EvalFrame /\ EvalFrame < endWp.frame
           /\ endWp.easing = UNDEF
           /\ a.x # b.x /\ a.y # b.y
           /\ StrictlyBetween(Unjittered.x, a.x, b.x)
           /\ StrictlyBetween(Unjittered.y, a.y, b.y)

(* C9: for a non-empty waypoint list, isClicking at frame f is true        *)
(* exactly when some waypoint w with onClick set has                       *)
(* w.frame <= f < w.frame + clickDuration, with one clickDuration for all  *)
(* waypoints (8 when the config gives none), whichever segment is active.  *)
C9_ClickWindow ==
    (Evaluated /\ Len(Wps) >= 1) =>
        LET d == IF config.clickDuration = UNDEF THEN 8 ELSE config.clickDuration[1]
        IN  mouse.value.isClicking
              <=> \E i \in 1..Len(Wps) :
                     /\ Wps[i].onClick = Some(TRUE)
                     /\ Wps[i].frame <= EvalFrame
                     /\ EvalFrame < Wps[i].frame + d

\* the last frame of a default window (trigger at frame 1 only, f = 1 + 8 - 1)
C9_Witness ==
    /\ Evaluated /\ Len(Wps) >= 1
    /\ config.clickDuration = UNDEF
    /\ \A i \in 1..Len(Wps) : Wps[i].onClick = Some(TRUE) => Wps[i].frame = 1
    /\ EvalFrame = 8
    /\ mouse.value.isClicking

(* C10: target resolution is total: a point target resolves to             *)
(* (x + offset.x, y + offset.y); an element target that is measured        *)
(* resolves to the rectangle's centre plus the offset; an element target   *)
(* that is unmeasured resolves to (960, 540); a missing offset counts as   *)
(* (0, 0).  A single waypoint publishes exactly that point (plus jitter).  *)
ExpectedOffset(wp) == IF wp.offset = UNDEF THEN [x |-> 0, y |-> 0] ELSE wp.offset[1]

ExpectedTarget(wp, g) ==
    IF wp.target.kind = "point"
    THEN [x |-> R(wp.target.x + ExpectedOffset(wp).x),
          y |-> R(wp.target.y + ExpectedOffset(wp).y)]
    ELSE IF g = NULL
         THEN [x |-> R(960), y |-> R(540)]
         ELSE LET r == g[1]
              IN  [x |-> <<2 * r.left + r.width + 2 * ExpectedOffset(wp).x, 2>>,
                   y |-> <<2 * r.top + r.height + 2 * ExpectedOffset(wp).y, 2>>]

SameRational(p, q) == p[1] * q[2] = q[1] * p[2]

SamePoint(p, q) == SameRational(p.x, q.x) /\ SameRational(p.y, q.y)

C10_TargetResolution ==
    Evaluated =>
        /\ \A i \in 1..Len(Wps) :
              SamePoint(resolveTarget(Wps[i], mouse.read), ExpectedTarget(Wps[i], mouse.read))
        /\ Len(Wps) = 1 => SamePoint(Unjittered, ExpectedTarget(Wps[1], mouse.read))

\* a measured element target with an offset, published by a single waypoint
C10_Witness ==
    /\ Evaluated /\ Len(Wps) = 1
    /\ Wps[1].target.kind = "ref" /\ Wps[1].offset # UNDEF
    /\ mouse.read # NULL
    /\ SamePoint(Unjittered, [x |-> R(111), y |-> R(45)])

(* C11: the values the two hooks return at a render pass equal what a      *)
(* fresh computation from the current frame, configuration and geometry    *)
(* snapshot returns, also when the element became measured or its rect     *)
(* changed since the previous pass at the same frame.  The dependency      *)
(* arrays of both useMemo calls leave the geometry out, so a pass at an    *)
(* unchanged frame returns the value computed from the old geometry.       *)
C11_FreshFromSnapshot ==
    Evaluated =>
        /\ mouse.value = MouseCompute(frame, config, snapshot)
        /\ hover.value = HoverCompute(frame, MouseCompute(frame, config, snapshot), snapshot,
                                      Padding(hitboxPadding))

(* C12: with the configuration and the geometry snapshot fixed, an         *)
(* evaluation of useMouseController at the frame of the first evaluation   *)
(* returns the same x, y and isClicking as the first one did, whatever     *)
(* frames were evaluated in between and in whatever order.                 *)
C12_Determinism ==
    (probe # NULL /\ frame = probe[1].frame) =>
        /\ mouse.value.x = probe[1].value.x
        /\ mouse.value.y = probe[1].value.y
        /\ mouse.value.isClicking = probe[1].value.isClicking

\* back at the first frame after a lower and a higher frame were evaluated,
\* on a trajectory that moves and clicks
C12_Witness ==
    /\ probe # NULL /\ frame = probe[1].frame
    /\ probe[1].lower /\ probe[1].higher
    /\ Len(Wps) >= 2 /\ Wps[1].frame < probe[1].frame /\ probe[1].frame < Wps[Len(Wps)].frame
    /\ Wps[1].target # Wps[Len(Wps)].target
    /\ mouse.value = probe[1].value

(* C13: a configuration with a negative clickDuration is rejected when the *)
(* configuration is constructed, so no per-frame evaluation runs with a    *)
(* negative clickDuration.  The hook only destructures the configuration   *)
(* with defaults, so the evaluation runs with whatever number it is given. *)
C13_NegativeRejected ==
    Evaluated => mouse.deps[5] >= 0

----------------------------------------------------------------------------
(* ScreenSpace3D as rendered *)

Rendered == scene # NULL

FollowEnabled == sceneProps[1].follow # Some(FALSE)

\* the viewport the scene was given, 1920 x 1080 when it was given none
GivenViewport ==
    IF sceneProps[1].viewport = UNDEF
    THEN [width |-> 1920, height |-> 1080]
    ELSE sceneProps[1].viewport[1]

ViewportCentre == [x |-> <<GivenViewport.width, 2>>, y |-> <<GivenViewport.height, 2>>]

GivenParallaxStrength ==
    IF sceneProps[1].parallaxStrength = UNDEF THEN <<1, 20>> ELSE sceneProps[1].parallaxStrength[1]

GivenRotateStrength ==
    IF sceneProps[1].rotateStrength = UNDEF THEN R(0) ELSE sceneProps[1].rotateStrength[1]

\* a rational is zero when its numerator is
IsZero(r) == r[1] = 0

AllZero(t) == IsZero(t.offsetX) /\ IsZero(t.offsetY) /\ IsZero(t.rotateX) /\ IsZero(t.rotateY)

\* equality of two points after reduction to lowest terms
EqualPoint(a, b) ==
    /\ Norm(a.x[1], a.x[2]) = Norm(b.x[1], b.x[2])
    /\ Norm(a.y[1], a.y[2]) = Norm(b.y[1], b.y[2])

Sgn(r) == IF r[1] > 0 THEN 1 ELSE IF r[1] < 0 THEN -1 ELSE 0

\* mouse positions a scene could have been given instead
OtherMousePositions ==
    { [x |-> R(0), y |-> R(0), isClicking |-> FALSE],
      [x |-> R(100), y |-> R(45), isClicking |-> TRUE],
      [x |-> R(1920), y |-> R(1080), isClicking |-> FALSE] }

(* C14: the point the transform is computed from is the override target    *)
(* when one is given, otherwise the mouse position when follow is enabled, *)
(* otherwise the viewport centre; with follow enabled the translation is   *)
(* (size - 2 * point) * parallaxStrength in each axis; and with an         *)
(* override the render is the same for every mouse position.               *)
C14_ActiveTarget ==
    Rendered =>
        LET p == sceneProps[1]
            expected == IF p.target # UNDEF
                        THEN [x |-> R(p.target[1].x), y |-> R(p.target[1].y)]
                        ELSE IF FollowEnabled
                             THEN [x |-> mouse.value.x, y |-> mouse.value.y]
                             ELSE ViewportCentre
        IN  /\ EqualPoint(scene[1].activeTarget, expected)
            /\ FollowEnabled =>
                  /\ scene[1].offsetX =
                        RMul(RSub(R(GivenViewport.width), RMul(R(2), expected.x)),
                             GivenParallaxStrength)
                  /\ scene[1].offsetY =
                        RMul(RSub(R(GivenViewport.height), RMul(R(2), expected.y)),
                             GivenParallaxStrength)
            /\ p.target # UNDEF =>
                  \A m \in OtherMousePositions : ScreenSpace3D(p, m) = scene[1]

\* an override off the centre, followed, while the mouse is somewhere else
C14_Witness ==
    /\ Rendered /\ FollowEnabled
    /\ sceneProps[1].target = Some([x |-> 1920, y |-> 540])
    /\ mouse.value.x # R(1920)
    /\ scene[1].activeTarget = [x |-> R(1920), y |-> R(540)]
    /\ ~IsZero(scene[1].offsetX)

(* C15: with follow false the four outputs are zero, for every mouse       *)
(* position, override target, viewport and strength.                       *)
C15_NoFollowZero ==
    (Rendered /\ sceneProps[1].follow = Some(FALSE)) => AllZero(scene[1])

\* follow false with an override off the centre and both strengths set
C15_Witness ==
    /\ Rendered /\ sceneProps[1].follow = Some(FALSE)
    /\ sceneProps[1].target = Some([x |-> 1920, y |-> 540])
    /\ sceneProps[1].rotateStrength # UNDEF /\ sceneProps[1].parallaxStrength # UNDEF
    /\ sceneProps[1].viewport # UNDEF
    /\ frame > 0
    /\ AllZero(scene[1])

(* C16: when the active target is the viewport centre (width/2, height/2)  *)
(* the four outputs are zero, whatever the two strengths.                  *)
C16_CentreZero ==
    (Rendered /\ EqualPoint(scene[1].activeTarget, ViewportCentre)) => AllZero(scene[1])

\* followed, with an override at the centre and both strengths set
C16_Witness ==
    /\ Rendered /\ FollowEnabled
    /\ sceneProps[1].target # UNDEF
    /\ EqualPoint(scene[1].activeTarget, ViewportCentre)
    /\ sceneProps[1].rotateStrength # UNDEF /\ sceneProps[1].parallaxStrength # UNDEF
    /\ AllZero(scene[1])

C18_HoverCallbacks ==
    [][/\ (~hover.value.isHovered /\ hover'.value.isHovered)
            => trigger'.onHover = trigger.onHover + 1
       /\ (hover.value.isHovered /\ ~hover'.value.isHovered)
            => trigger'.onLeave = trigger.onLeave + 1]_vars

(* C19: under any interleaving of the render passes of several sessions,   *)
(* each with several tracked elements, the HoverState of an element in a   *)
(* session is the one computed from that session's frame and that          *)
(* element's geometry alone, and a pass of one session changes nothing of  *)
(* another session.                                                        *)
AloneHover(s, e) ==
    HoverCompute(s.frame, MouseCompute(s.frame, config, layout[TrackedElement]),
                 layout[e], Padding(hitboxPadding))

C19_NoLeak ==
    [][/\ \A id \in RenderSessions, e \in Elements :
             sessions'[id].hover[e].deps # NoDeps
                => sessions'[id].hover[e].value = AloneHover(sessions'[id], e)
       /\ \A id \in RenderSessions : \A other \in RenderSessions \ {id} :
             sessions'[id] = sessions[id] \/ sessions'[other] = sessions[other]]_vars

\* both sessions have rendered, at different frames; the button is hovered in
\* one session and not in the other, and the panel is not hovered in either
C19_Witness ==
    /\ sessions # <<>>
    /\ sessions["first"].frame > sessions["second"].frame
    /\ sessions["second"].frame > 0
    /\ sessions["first"].hover["button"].value.isHovered
    /\ ~sessions["second"].hover["button"].value.isHovered
    /\ sessions["second"].hover["button"].deps # NoDeps
    /\ ~sessions["first"].hover["panel"].value.isHovered
    /\ sessions["first"].hover["panel"].deps # NoDeps

(* C20: the jitter of a frame is added to the interpolated position before *)
(* the MousePosition is published: the position the hover hook and the     *)
(* parallax camera (following the mouse) are given at a frame is the       *)
(* interpolated position plus sin(frame * speed) * amplitude in x and      *)
(* cos(frame * speed * 0.8) * amplitude in y, not the un-jittered one.     *)
Jittered ==
    LET p == Interpolated(EvalFrame, Wps, mouse.read)
    IN  [x |-> RAdd(p.x, RMul(<<SinTable[EvalFrame + 1], 1000>>, R(Wobble(config).amplitude))),
         y |-> RAdd(p.y, RMul(<<CosTable[EvalFrame + 1], 1000>>, R(Wobble(config).amplitude)))]

C20_JitterConsumed ==
    (Evaluated /\ Len(Wps) >= 1) =>
        /\ mouse.value.x = Jittered.x /\ mouse.value.y = Jittered.y
        /\ hover.deps # NoDeps /\ HoverMouse = Jittered
        /\ Rendered
        /\ (FollowEnabled /\ sceneProps[1].target = UNDEF) => scene[1].activeTarget = Jittered

\* between two waypoints, with a jitter that is not zero in either axis
C20_Witness ==
    /\ Evaluated /\ Len(Wps) = 2
    /\ Wps[1].frame < EvalFrame /\ EvalFrame < Wps[2].frame
    /\ Jittered.x # Interpolated(EvalFrame, Wps, mouse.read).x
    /\ Jittered.y # Interpolated(EvalFrame, Wps, mouse.read).y
    /\ Interpolated(EvalFrame, Wps, mouse.read) # resolveTarget(Wps[1], mouse.read)
    /\ HoverMouse = Jittered
    /\ Rendered /\ FollowEnabled /\ sceneProps[1].target = UNDEF
    /\ scene[1].activeTarget = Jittered

(* C21: in every HoverState the hook returns, hoverStartFrame is non-null  *)
(* exactly when isHovered is true, and when non-null it is not greater     *)
(* than the current frame.                                                 *)
C21_StartFrameShape ==
    hover.deps # NoDeps =>
        /\ hover.value.hoverStartFrame # NULL <=> hover.value.isHovered
        /\ hover.value.hoverStartFrame # NULL => hover.value.hoverStartFrame[1] <= frame

\* hovered at a later frame, and not hovered at some evaluation before
C21_Witness ==
    /\ hover.deps # NoDeps /\ frame > 0
    /\ hover.value.isHovered
    /\ hover.value.hoverStartFrame # NULL
    /\ hover.value.hoverStartFrame[1] <= frame
    /\ hoverRunEnded

(* C22: for a waypoint list with strictly ascending frames, at the frame   *)
(* of every waypoint (first, interior or last) the position, jitter        *)
(* excluded, is that waypoint's resolved target: the trajectory does not   *)
(* jump where one segment ends and the next begins.                        *)
StrictlyAscending(wps) == \A i \in 1..(Len(wps) - 1) : wps[i].frame < wps[i + 1].frame

C22_WaypointContinuity ==
    (Evaluated /\ StrictlyAscending(Wps)) =>
        \A k \in 1..Len(Wps) :
            EvalFrame = Wps[k].frame => Unjittered = resolveTarget(Wps[k], mouse.read)

\* at the frame of the interior waypoint of three with three different targets
C22_Witness ==
    /\ Evaluated /\ Len(Wps) = 3 /\ StrictlyAscending(Wps)
    /\ EvalFrame = Wps[2].frame
    /\ resolveTarget(Wps[2], mouse.read) # resolveTarget(Wps[1], mouse.read)
    /\ resolveTarget(Wps[2], mouse.read) # resolveTarget(Wps[3], mouse.read)
    /\ resolveTarget(Wps[1], mouse.read) # resolveTarget(Wps[3], mouse.read)
    /\ Unjittered = resolveTarget(Wps[2], mouse.read)

====
